---- MODULE Spec2Model ----
(***************************************************************************)
(* Directory walker of stdl/fs.py: the generators yield_files_in and       *)
(* yield_dirs_in, their eager variants get_files_in / get_dirs_in, and the *)
(* part of the operating system they call (os.scandir, DirEntry.is_dir,    *)
(* DirEntry.is_file, os.path.abspath, str.lower, str.endswith).            *)
(*                                                                         *)
(* A path is a sequence of components, a component a sequence of           *)
(* one-character strings, so that lower() and endswith() are computed on   *)
(* characters.  A generator advances by one action per next() call: the    *)
(* action runs the body from the point of suspension to the next yield,    *)
(* to the end of the body, or to the exception that leaves it.             *)
(***************************************************************************)
EXTENDS Integers, Sequences, FiniteSets, TLC

VARIABLES fs, gone, params, walk, codec, nap, disk, job, dates

vars == <<fs, gone, params, walk, codec, nap, disk, job, dates>>

\* the state of the directory walker
walkerVars == <<fs, gone, params, walk>>

\* the state of the other functions of the library: the duration codec,
\* sleep, the file-system helpers (disk and the call in progress), and
\* date_range
utilVars == <<codec, nap, disk, job, dates>>

\* a part of the library that is not in use
Unused == <<>>

WalkerUnused == fs = Unused /\ gone = Unused /\ params = Unused /\ walk = Unused

(* ------------------------------ bounds -------------------------------- *)

\* symbolic links the kernel follows in one path resolution before ELOOP
MaxLinks == 2

\* directories another process may remove while walks are in progress
MaxRemovals == 1

Walks == {1, 2}

(* --------------------------- names and paths --------------------------- *)

SEP == "/"

R == <<"r">>
SUB == <<"s", "u", "b">>
LNK == <<"l", "n", "k">>
LOOP == <<"l", "o", "o", "p">>
PRIV == <<"p", "r", "i", "v">>
D1 == <<"d", "1">>
D3 == <<"d", "3">>
D_TXT == <<"d", ".", "t", "x", "t">>
NO == <<"n", "o">>
A_TXT == <<"a", ".", "t", "x", "t">>
B_TXT == <<"b", ".", "t", "x", "t">>
F_TXT_UP == <<"f", ".", "T", "X", "T">>
X_TXT == <<"x", ".", "t", "x", "t">>
Y_PY == <<"y", ".", "p", "y">>
Y_TXT_MIX == <<"Y", ".", "T", "x", "t">>
Z_TXT == <<"z", ".", "t", "x", "t">>
S_TXT == <<"s", ".", "t", "x", "t">>
FIFO == <<"f", "i", "f", "o">>

DOT_TXT == <<".", "t", "x", "t">>
DOT_TXT_UP == <<".", "T", "X", "T">>
DOT_PY == <<".", "p", "y">>

\* the process's working directory, as the components of "/w"
CwdPath == << <<>>, <<"w">> >>

LowerChar(c) ==
    CASE c = "T" -> "t"
      [] c = "X" -> "x"
      [] c = "Y" -> "y"
      [] c = "P" -> "p"
      [] OTHER -> c

lower(s) == [i \in 1..Len(s) |-> LowerChar(s[i])]

RECURSIVE joinpath(_)
joinpath(p) ==
    IF Len(p) = 0 THEN <<>>
    ELSE IF Len(p) = 1 THEN p[1]
    ELSE joinpath(SubSeq(p, 1, Len(p) - 1)) \o <<SEP>> \o p[Len(p)]

abspath(p) == CwdPath \o p

endswith1(s, suffix) ==
    /\ Len(suffix) <= Len(s)
    /\ SubSeq(s, Len(s) - Len(suffix) + 1, Len(s)) = suffix

\* str.endswith(ext): ext a str or a tuple of str; anything else is a
\* TypeError.  The result is "yes", "no" or "TypeError".
endswith(s, ext) ==
    CASE ext.kind = "str" ->
            IF endswith1(s, ext.sufs[1]) THEN "yes" ELSE "no"
      [] ext.kind = "tuple" ->
            IF \E i \in 1..Len(ext.sufs) : endswith1(s, ext.sufs[i])
            THEN "yes" ELSE "no"
      [] OTHER -> "TypeError"

(* ----------------------------- file system ----------------------------- *)

\* A directory is a number; directory 0 is the working directory.  The
\* listing of a directory is the sequence of its entries in the order the
\* operating system enumerates them.
F(n) == [name |-> n, kind |-> "file", ref |-> 0]
O(n) == [name |-> n, kind |-> "other", ref |-> 0]
D(n, d) == [name |-> n, kind |-> "dir", ref |-> d]
L(n, d) == [name |-> n, kind |-> "link", ref |-> d]

\* r/{a.txt, sub/{b.txt}}
TreeExample ==
    [ls |-> <<  <<D(R, 1)>>, <<F(A_TXT), D(SUB, 2)>>, <<F(B_TXT)>>, <<>>, <<>> >>,
     denied |-> {}]

\* r/{d1/{x.txt, d3/{z.txt}}, f.TXT, d.txt/{y.py, Y.Txt}, fifo}
TreeDeep ==
    [ls |-> <<  <<D(R, 1)>>,
                <<D(D1, 2), F(F_TXT_UP), D(D_TXT, 3), O(FIFO)>>,
                <<F(X_TXT), D(D3, 4)>>,
                <<F(Y_PY), F(Y_TXT_MIX)>>,
                <<F(Z_TXT)>> >>,
     denied |-> {}]

\* r/{sub/{b.txt}, lnk -> r/sub, a.txt}
TreeLink ==
    [ls |-> <<  <<D(R, 1)>>, <<D(SUB, 2), L(LNK, 2), F(A_TXT)>>, <<F(B_TXT)>>, <<>>, <<>> >>,
     denied |-> {}]

\* r/{a.txt, loop -> r}
TreeLoop ==
    [ls |-> <<  <<D(R, 1)>>, <<F(A_TXT), L(LOOP, 1)>>, <<>>, <<>>, <<>> >>,
     denied |-> {}]

\* r/{a.txt, priv/{s.txt} (unreadable), sub/{b.txt}}
TreeDenied ==
    [ls |-> <<  <<D(R, 1)>>, <<F(A_TXT), D(PRIV, 2), D(SUB, 3)>>, <<F(S_TXT)>>, <<F(B_TXT)>>, <<>> >>,
     denied |-> {2}]

Trees == {TreeExample, TreeDeep, TreeLink, TreeLoop, TreeDenied}

Dirs == 0..4

\* the listing of directory d (directories are numbered from 0)
Listing(d) == fs.ls[d + 1]

\* an entry whose directory was removed is no longer enumerated
Present(e) == ~(e.kind = "dir" /\ e.ref \in gone)

\* Path resolution by the kernel, from the working directory: the
\* directory a path names, or the error of the system call.
RECURSIVE ResolveFrom(_, _, _, _)
ResolveFrom(d, path, i, links) ==
    IF i > Len(path) THEN [err |-> "ok", id |-> d]
    ELSE LET ks == {k \in 1..Len(Listing(d)) :
                        /\ Listing(d)[k].name = path[i]
                        /\ Present(Listing(d)[k])}
         IN  IF ks = {} THEN [err |-> "FileNotFoundError", id |-> d]
             ELSE LET e == Listing(d)[CHOOSE k \in ks : TRUE]
                  IN  CASE e.kind = "dir" -> ResolveFrom(e.ref, path, i + 1, links)
                        [] e.kind = "link" ->
                              IF links + 1 > MaxLinks
                              THEN [err |-> "OSError", id |-> d]
                              ELSE IF e.ref \in gone
                              THEN [err |-> "FileNotFoundError", id |-> d]
                              ELSE ResolveFrom(e.ref, path, i + 1, links + 1)
                        [] OTHER -> [err |-> "NotADirectoryError", id |-> d]

Resolve(path) == ResolveFrom(0, path, 1, 0)

\* os.scandir(path): the directory opened, or the error raised
scandir(path) ==
    LET r == Resolve(path)
    IN  IF r.err # "ok" THEN r
        ELSE IF r.id \in fs.denied THEN [err |-> "PermissionError", id |-> r.id]
        ELSE r

\* DirEntry.is_dir() of entry e whose path is p: "yes", "no", or the error
\* raised.  A link is followed by a stat of p; a missing target is "no".
is_dir(e, p) ==
    CASE e.kind = "dir" -> "yes"
      [] e.kind = "link" ->
            LET r == Resolve(p)
            IN  IF r.err = "ok" THEN "yes"
                ELSE IF r.err = "FileNotFoundError" THEN "no"
                ELSE r.err
      [] OTHER -> "no"

\* DirEntry.is_file(): links of the model point at directories
is_file(e, p) ==
    CASE e.kind = "file" -> "yes"
      [] e.kind = "link" ->
            LET r == Resolve(p)
            IN  IF r.err \in {"ok", "FileNotFoundError"} THEN "no" ELSE r.err
      [] OTHER -> "no"

(* ------------------------------ the calls ------------------------------ *)

NoExt == [kind |-> "none", sufs |-> <<>>]

Exts ==
    { NoExt,
      [kind |-> "str", sufs |-> <<DOT_TXT>>],
      [kind |-> "str", sufs |-> <<DOT_TXT_UP>>],
      [kind |-> "tuple", sufs |-> <<DOT_PY, DOT_TXT>>],
      [kind |-> "set", sufs |-> <<DOT_TXT>>] }

Roots == { <<R>>, <<R, SUB>>, <<NO>>, <<R, A_TXT>> }

\* fn is the generator function called; ext is None for yield_dirs_in
Calls ==
    [fn : {"yield_files_in"}, directory : Roots, ext : Exts,
     recursive : BOOLEAN, abs : BOOLEAN]
    \cup
    [fn : {"yield_dirs_in"}, directory : Roots, ext : {NoExt},
     recursive : BOOLEAN, abs : BOOLEAN]

(* ---------------------------- the generators ---------------------------- *)

\* The state of one generator object.  pc is "created" before the first
\* next(), "suspended" at a yield, "done" after the body returned,
\* "raised" after an exception left the body, "abandoned" once the consumer
\* dropped the generator before its end.  cur, curid, idx and open are the
\* scandir iterator of the running for loop: its path, its directory, the
\* position of the entry last taken, and whether its handle is open.
\* out, scanned, enqueued and pulls record what the consumer received, the
\* directories opened, the paths put on the queue and the next() calls.
NewWalk ==
    [pc |-> "created", queue |-> <<>>, cur |-> <<>>, curid |-> 0, idx |-> 0,
     open |-> FALSE, out |-> <<>>, scanned |-> <<>>, enqueued |-> <<>>,
     err |-> "none", pulls |-> 0]

\* queue.Queue is first in, first out: get() takes the oldest item
QueuePut(q, x) == Append(q, x)

\* a queue that hands out the newest item first
QueueGet_lifo(q) == [item |-> q[Len(q)], rest |-> SubSeq(q, 1, Len(q) - 1)]

QueueGet(q) == [item |-> Head(q), rest |-> Tail(q)]

\* a put that enters the path twice
put_twice(s, path) ==
    [s EXCEPT !.queue = QueuePut(QueuePut(@, path), path),
              !.enqueued = Append(Append(@, path), path)]

\* queue.put(path)
put(s, path) ==
    [s EXCEPT !.queue = QueuePut(@, path), !.enqueued = Append(@, path)]

Yield(s, path) == [s EXCEPT !.pc = "suspended", !.out = Append(@, path)]
Raise(s, e) == [s EXCEPT !.pc = "raised", !.err = e]
Return(s) == [s EXCEPT !.pc = "done"]

\* the path handed to the consumer
Shown(c, p) == IF c.abs THEN abspath(p) ELSE p

\* One entry of the non-recursive loop of yield_files_in.  The result has
\* pc "suspended" (yield), "raised", or the unchanged pc (next entry).
FilesFlat(c, s, e) ==
    LET p == Append(s.cur, e.name)
        f == is_file(e, p)
        path == Shown(c, p)
        m == endswith(lower(joinpath(path)), c.ext)
    IN  IF f = "no" THEN s
        ELSE IF f # "yes" THEN Raise(s, f)
        ELSE IF c.ext.kind = "none" THEN Yield(s, path)
        ELSE IF m = "yes" THEN Yield(s, path)
        ELSE IF m = "no" THEN s
        ELSE Raise(s, m)

\* a loop that yields whatever is not a directory
FilesAll_anynondir(c, s, e) ==
    LET p == Append(s.cur, e.name)
        d == is_dir(e, p)
    IN  IF d = "yes" THEN put(s, p)
        ELSE IF d # "no" THEN Raise(s, d)
        ELSE Yield(s, Shown(c, p))

\* One entry of the recursive loop of yield_files_in without a filter
FilesAll(c, s, e) ==
    LET p == Append(s.cur, e.name)
        d == is_dir(e, p)
        f == is_file(e, p)
    IN  IF d = "yes" THEN put(s, p)
        ELSE IF d # "no" THEN Raise(s, d)
        ELSE IF f = "yes" THEN Yield(s, Shown(c, p))
        ELSE IF f = "no" THEN s
        ELSE Raise(s, f)

\* a loop that does not descend into directories
FilesExt_nodescent(c, s, e) ==
    LET p == Append(s.cur, e.name)
        f == is_file(e, p)
        m == endswith(lower(joinpath(p)), c.ext)
    IN  IF f = "no" THEN s
        ELSE IF f # "yes" THEN Raise(s, f)
        ELSE IF m = "yes" THEN Yield(s, Shown(c, p))
        ELSE IF m = "no" THEN s
        ELSE Raise(s, m)

\* One entry of the recursive loop of yield_files_in with a filter
FilesExt(c, s, e) ==
    LET p == Append(s.cur, e.name)
        d == is_dir(e, p)
        f == is_file(e, p)
        m == endswith(lower(joinpath(p)), c.ext)
    IN  IF d = "yes" THEN put(s, p)
        ELSE IF d # "no" THEN Raise(s, d)
        ELSE IF f = "no" THEN s
        ELSE IF f # "yes" THEN Raise(s, f)
        ELSE IF m = "yes" THEN Yield(s, Shown(c, p))
        ELSE IF m = "no" THEN s
        ELSE Raise(s, m)

\* a loop that enqueues whatever the recursive flag says
DirsEntry_alwaysput(c, s, e) ==
    LET p == Append(s.cur, e.name)
        d == is_dir(e, p)
    IN  IF d = "no" THEN s
        ELSE IF d # "yes" THEN Raise(s, d)
        ELSE Yield(put(s, p), Shown(c, p))

\* a loop that yields a directory only when it also enqueues it
DirsEntry_yieldifrecursive(c, s, e) ==
    LET p == Append(s.cur, e.name)
        d == is_dir(e, p)
    IN  IF d = "no" THEN s
        ELSE IF d # "yes" THEN Raise(s, d)
        ELSE IF c.recursive THEN Yield(put(s, p), Shown(c, p))
        ELSE s

\* One entry of the loop of yield_dirs_in
DirsEntry(c, s, e) ==
    LET p == Append(s.cur, e.name)
        d == is_dir(e, p)
    IN  IF d = "no" THEN s
        ELSE IF d # "yes" THEN Raise(s, d)
        ELSE Yield(IF c.recursive THEN put(s, p) ELSE s, Shown(c, p))

Visit(c, s, e) ==
    IF c.fn = "yield_dirs_in" THEN DirsEntry(c, s, e)
    ELSE IF ~c.recursive THEN FilesFlat(c, s, e)
    ELSE IF c.ext.kind = "none" THEN FilesAll(c, s, e)
    ELSE FilesExt(c, s, e)

\* the non-recursive yield_files_in has no queue and returns after one loop
Flat(c) == c.fn = "yield_files_in" /\ ~c.recursive

RECURSIVE Iterate(_, _), Loop(_, _), OpenDir(_, _, _)

\* a walker that passes over a directory it cannot open
OpenDir_skip(c, s, path) ==
    LET r == scandir(path)
    IN  IF r.err # "ok" THEN (IF Flat(c) THEN Return(s) ELSE Loop(c, s))
        ELSE Iterate(c, [s EXCEPT !.cur = path, !.curid = r.id, !.idx = 1,
                                  !.open = TRUE, !.scanned = Append(@, path)])

\* "for entry in os.scandir(path)": open the directory, then iterate
OpenDir(c, s, path) ==
    LET r == scandir(path)
    IN  IF r.err # "ok" THEN Raise(s, r.err)
        ELSE Iterate(c, [s EXCEPT !.cur = path, !.curid = r.id, !.idx = 1,
                                  !.open = TRUE, !.scanned = Append(@, path)])

\* "while not queue.empty(): next_dir = queue.get(); for entry in ..."
Loop(c, s) ==
    IF s.queue = <<>> THEN Return(s)
    ELSE OpenDir(c, [s EXCEPT !.queue = QueueGet(@).rest], QueueGet(s.queue).item)

\* The for loop from the entry at s.idx on.  The scandir iterator closes
\* its handle when it is exhausted.
Iterate(c, s) ==
    IF s.idx > Len(Listing(s.curid))
    THEN LET t == [s EXCEPT !.open = FALSE]
         IN  IF Flat(c) THEN Return(t) ELSE Loop(c, t)
    ELSE LET e == Listing(s.curid)[s.idx]
             t == IF Present(e) THEN Visit(c, s, e) ELSE s
         IN  IF t.pc \in {"suspended", "raised"} THEN t
             ELSE Iterate(c, [t EXCEPT !.idx = @ + 1])

\* the body from its first statement
Start(c, s) ==
    IF Flat(c) THEN OpenDir(c, s, c.directory)
    ELSE Loop(c, put(s, c.directory))

\* next(generator): run to the next yield, the return or the exception
Resume(c, s) ==
    LET t == [s EXCEPT !.pulls = @ + 1, !.pc = "running"]
    IN  IF s.pc = "created" THEN Start(c, t)
        ELSE Iterate(c, [t EXCEPT !.idx = @ + 1])

Live(s) == s.pc \in {"created", "suspended"}

\* list(generator), as get_files_in and get_dirs_in do
RECURSIVE Drain(_, _)
Drain(c, s) == IF Live(s) THEN Drain(c, Resume(c, s)) ELSE s

get_in(c) == Drain(c, NewWalk)

(* ------------------------------- actions ------------------------------- *)

\* the directories a path resolution passes through
RECURSIVE Chain(_, _, _)
Chain(d, path, i) ==
    IF i > Len(path) THEN {d}
    ELSE LET ks == {k \in 1..Len(Listing(d)) : Listing(d)[k].name = path[i]}
         IN  IF ks = {} THEN {d}
             ELSE {d} \cup Chain(Listing(d)[CHOOSE k \in ks : TRUE].ref, path, i + 1)

\* the directories that exist in the tree
Existing == {d \in Dirs : \E p \in Dirs : \E k \in 1..Len(Listing(p)) :
                Listing(p)[k].kind = "dir" /\ Listing(p)[k].ref = d}

Init ==
    /\ fs \in Trees
    /\ gone = {}
    /\ params \in [Walks -> Calls]
    /\ params[2] \in {params[1], [params[1] EXCEPT !.directory = <<R>>]}
    /\ walk = [w \in Walks |-> NewWalk]
    /\ codec = Unused /\ nap = Unused /\ disk = Unused /\ job = Unused /\ dates = Unused

\* generators whose queue is one object of the module, seen by all
Store_sharedqueue(w, s) ==
    [v \in Walks |-> IF v = w THEN s ELSE [walk[v] EXCEPT !.queue = s.queue]]

\* the locals of generator w after a step: each generator has its own frame
Store(w, s) == [walk EXCEPT ![w] = s]

\* the consumer calls next() on generator w
Pull(w) ==
    /\ Live(walk[w])
    /\ walk' = Store(w, Resume(params[w], walk[w]))
    /\ UNCHANGED <<fs, gone, params>>
    /\ UNCHANGED utilVars

\* the consumer stops iterating and drops generator w
Abandon(w) ==
    /\ Live(walk[w])
    /\ walk' = [walk EXCEPT ![w].pc = "abandoned"]
    /\ UNCHANGED <<fs, gone, params>>
    /\ UNCHANGED utilVars

\* The garbage collector finalizes the scandir iterator of a generator that
\* ended inside its for loop: the handle is closed then, at a time the
\* language does not fix.
Finalize(w) ==
    /\ walk[w].pc \in {"abandoned", "raised"}
    /\ walk[w].open
    /\ walk' = [walk EXCEPT ![w].open = FALSE]
    /\ UNCHANGED <<fs, gone, params>>
    /\ UNCHANGED utilVars

\* Another process removes directory d with everything below it, while no
\* walk holds an open handle on d, on its parent or below d.
RemoveDir(d) ==
    /\ d \in Existing \ {0}
    /\ d \notin gone
    /\ Cardinality(gone) < MaxRemovals
    /\ \A w \in Walks : walk[w].open =>
            /\ d \notin Chain(0, walk[w].cur, 1)
            /\ \A k \in 1..Len(Listing(walk[w].curid)) :
                   Listing(walk[w].curid)[k].ref # d
    /\ gone' = gone \cup {d}
    /\ UNCHANGED <<fs, params, walk>>
    /\ UNCHANGED utilVars

Next ==
    \/ \E w \in Walks : Pull(w)
    \/ \E w \in Walks : Abandon(w)
    \/ \E w \in Walks : Finalize(w)
    \/ \E d \in Dirs : RemoveDir(d)

Spec == Init /\ [][Next]_vars

(* ------------------- the tree, read without the walker ------------------ *)

Range(q) == {q[i] : i \in 1..Len(q)}
NoDup(q) == \A i, j \in 1..Len(q) : q[i] = q[j] => i = j

\* the structure is a tree: no entry is a link to a directory
NoLinks == \A d \in Dirs : \A k \in 1..Len(Listing(d)) : Listing(d)[k].kind # "link"

\* nothing was removed since the walks were created
Static == gone = {}

\* the paths of the entries of one kind in directory d (whose path is p)
\* and in the directories below it
RECURSIVE TreePaths(_, _, _)
TreePaths(kind, d, p) ==
    {Append(p, Listing(d)[k].name) :
        k \in {k \in 1..Len(Listing(d)) : Listing(d)[k].kind = kind}}
    \cup UNION {TreePaths(kind, Listing(d)[k].ref, Append(p, Listing(d)[k].name)) :
        k \in {k \in 1..Len(Listing(d)) : Listing(d)[k].kind = "dir"}}

\* the paths of the entries of one kind directly in directory d
ChildPaths(kind, d, p) ==
    {Append(p, Listing(d)[k].name) :
        k \in {k \in 1..Len(Listing(d)) : Listing(d)[k].kind = kind}}

\* the kind of the entry a path names: "dir", "file", "other", "link",
\* or "missing"
RECURSIVE KindFrom(_, _, _)
KindFrom(d, path, i) ==
    LET ks == {k \in 1..Len(Listing(d)) : Listing(d)[k].name = path[i]}
        e == Listing(d)[CHOOSE k \in ks : TRUE]
    IN  IF i > Len(path) \/ ks = {} THEN "missing"
        ELSE IF i = Len(path) THEN e.kind
        ELSE IF e.kind \in {"dir", "link"} THEN KindFrom(e.ref, path, i + 1)
        ELSE "missing"

\* the path the walker saw, from the path it handed out
Unshown(c, q) == IF c.abs THEN SubSeq(q, Len(CwdPath) + 1, Len(q)) ELSE q

\* a filter in the form the specification gives it: lowercase suffixes
LowercaseExt(ext) == \A i \in 1..Len(ext.sufs) : lower(ext.sufs[i]) = ext.sufs[i]

\* the file at path p passes the filter
Passes(ext, p) ==
    \/ ext.kind = "none"
    \/ \E i \in 1..Len(ext.sufs) : endswith1(lower(joinpath(p)), ext.sufs[i])

IsFilesCall(c) == c.fn = "yield_files_in"
IsDirsCall(c) == c.fn = "yield_dirs_in"

(* -------------------------------- claims -------------------------------- *)

\* C1: on an unchanged directory tree, a recursive yield_files_in drained
\* to exhaustion has yielded every regular file of the tree under the root
\* that passes the (lowercase) filter exactly once, no path twice, and at
\* no point of any files walk is a yielded path a directory.
C1_FilesExactlyOnce ==
    \A w \in Walks :
        LET c == params[w]
            s == walk[w]
        IN  (IsFilesCall(c) /\ Static) =>
              /\ \A i \in 1..Len(s.out) : KindFrom(0, Unshown(c, s.out[i]), 1) = "file"
              /\ (c.recursive /\ s.pc = "done" /\ NoLinks /\ LowercaseExt(c.ext)) =>
                    /\ NoDup(s.out)
                    /\ Range(s.out) =
                         {Shown(c, p) : p \in {q \in TreePaths("file", Resolve(c.directory).id, c.directory) :
                                                  Passes(c.ext, q)}}

\* the example of the specification: root/{a.txt, sub/b.txt}, filter ".txt"
C1_Witness ==
    \E w \in Walks :
        /\ fs = TreeExample
        /\ params[w].fn = "yield_files_in"
        /\ params[w].directory = <<R>>
        /\ params[w].recursive
        /\ params[w].ext = [kind |-> "str", sufs |-> <<DOT_TXT>>]
        /\ walk[w].pc = "done"
        /\ Range(walk[w].out) = {Shown(params[w], <<R, A_TXT>>), Shown(params[w], <<R, SUB, B_TXT>>)}
        /\ Len(walk[w].out) = 2

\* the directory a yielded path lies in
Parent(q) == SubSeq(q, 1, Len(q) - 1)

\* the directory the walk was asked to search, when it can be opened
RootId(c) == Resolve(c.directory).id

\* C2: with recursive=false, yield_files_in and yield_dirs_in scan only the
\* root: every yielded path is a direct child of the root, no directory
\* other than the root is ever opened, and the queue never holds anything
\* but the root; on root/{a.txt, sub/b.txt} the files walk yields only
\* a.txt.
C2_NonRecursiveRootOnly ==
    \A w \in Walks :
        LET c == params[w]
            s == walk[w]
        IN  ~c.recursive =>
              /\ \A i \in 1..Len(s.out) : Parent(Unshown(c, s.out[i])) = c.directory
              /\ s.scanned \in {<<>>, <<c.directory>>}
              /\ s.queue \in {<<>>, <<c.directory>>}
              /\ s.enqueued \in {<<>>, <<c.directory>>}
              /\ (/\ fs = TreeExample /\ Static /\ IsFilesCall(c) /\ c.directory = <<R>>
                  /\ c.ext.kind = "none" /\ s.pc = "done")
                    => s.out = <<Shown(c, <<R, A_TXT>>)>>

\* the non-recursive files walk of the example has run to its end and
\* yielded a.txt, leaving sub/b.txt unvisited
C2_Witness ==
    \E w \in Walks :
        /\ fs = TreeExample
        /\ IsFilesCall(params[w])
        /\ ~params[w].recursive
        /\ params[w].directory = <<R>>
        /\ walk[w].pc = "done"
        /\ walk[w].scanned = <<params[w].directory>>
        /\ Len(walk[w].out) = 1

\* C4: a recursive walk is breadth-first.  The directories are opened in
\* the order in which they were put on the queue, the root first, and the
\* queue holds the paths put and not yet taken, in that order; the paths
\* yielded never decrease in depth; the paths yielded from one directory
\* are contiguous in the output.
C4_BreadthFirst ==
    \A w \in Walks :
        LET c == params[w]
            s == walk[w]
            n == Len(s.enqueued)
        IN  c.recursive =>
              /\ Len(s.scanned) <= n
              /\ \A i \in 1..Len(s.scanned) : s.scanned[i] = s.enqueued[i]
              /\ n > 0 => s.enqueued[1] = c.directory
              /\ s.queue = SubSeq(s.enqueued, n - Len(s.queue) + 1, n)
              /\ \A i, j \in 1..Len(s.out) : i < j => Len(s.out[i]) <= Len(s.out[j])
              /\ \A i, j, k \in 1..Len(s.out) :
                    (i < j /\ j < k /\ Parent(s.out[i]) = Parent(s.out[k]))
                        => Parent(s.out[j]) = Parent(s.out[i])

\* a recursive walk has yielded from three levels of a tree whose root
\* lists a directory before a file
C4_Witness ==
    \E w \in Walks :
        /\ fs = TreeDeep
        /\ params[w].recursive
        /\ params[w].directory = <<R>>
        /\ walk[w].pc = "done"
        /\ Len(walk[w].scanned) = 4
        /\ \E i, j \in 1..Len(walk[w].out) : Len(walk[w].out[j]) = Len(walk[w].out[i]) + 2

\* the directory children of directory d, links to directories included
DirChildren(d, p) == ChildPaths("dir", d, p) \cup ChildPaths("link", d, p)

\* C5: yield_dirs_in yields every directory child of a directory it scans
\* whatever the recursive flag is, and puts it on the queue exactly when
\* recursive is true.  A recursive walk of an unchanged tree, run to its
\* end, has yielded every proper subdirectory of the root exactly once; a
\* non-recursive one exactly the root's immediate subdirectories.  The root
\* and regular files are never yielded.
C5_DirsWalk ==
    \A w \in Walks :
        LET c == params[w]
            s == walk[w]
        IN  (IsDirsCall(c) /\ Static) =>
              /\ \A i \in 1..Len(s.out) :
                    /\ KindFrom(0, Unshown(c, s.out[i]), 1) \in {"dir", "link"}
                    /\ Unshown(c, s.out[i]) # c.directory
              /\ c.recursive => (Len(s.enqueued) > 0 =>
                    s.enqueued = <<c.directory>> \o [i \in 1..Len(s.out) |-> Unshown(c, s.out[i])])
              /\ ~c.recursive => s.enqueued \in {<<>>, <<c.directory>>}
              /\ \A i \in 1..Len(s.scanned) :
                    (i < Len(s.scanned) \/ s.pc = "done") =>
                        {Shown(c, p) : p \in DirChildren(Resolve(s.scanned[i]).id, s.scanned[i])}
                            \subseteq Range(s.out)
              /\ (s.pc = "done" /\ c.recursive /\ NoLinks) =>
                    /\ NoDup(s.out)
                    /\ Range(s.out) = {Shown(c, p) : p \in TreePaths("dir", RootId(c), c.directory)}
              /\ (s.pc = "done" /\ ~c.recursive) =>
                    /\ NoDup(s.out)
                    /\ Range(s.out) = {Shown(c, p) : p \in DirChildren(RootId(c), c.directory)}

\* both a recursive and a non-recursive yield_dirs_in have run to their end
\* on a tree with nested directories and files
C5_Witness ==
    /\ fs = TreeDeep
    /\ IsDirsCall(params[1])
    /\ params[1].directory = <<R>>
    /\ walk[1].pc = "done"
    /\ Len(walk[1].out) = IF params[1].recursive THEN 3 ELSE 2
    /\ walk[2].pc = "done"

\* a suffix of the filter matches the path when letter case is ignored on
\* both sides
MatchesAnyCase(ext, p) ==
    \E i \in 1..Len(ext.sufs) : endswith1(lower(joinpath(p)), lower(ext.sufs[i]))

\* C3: with an extension filter, yield_files_in yields exactly the files
\* whose path ends with one of the filter's suffixes when the letter case
\* of both the path and the ext argument is ignored; it takes a single
\* suffix, a tuple or a set of suffixes; the recursive and the
\* non-recursive loop select by the same rule.
C3_FilterAnyCase ==
    \A w \in Walks :
        LET c == params[w]
            s == walk[w]
            files == IF c.recursive
                     THEN TreePaths("file", RootId(c), c.directory)
                     ELSE ChildPaths("file", RootId(c), c.directory)
        IN  (IsFilesCall(c) /\ c.ext.kind # "none" /\ Static) =>
              /\ s.err # "TypeError"
              /\ \A i \in 1..Len(s.out) : MatchesAnyCase(c.ext, Unshown(c, s.out[i]))
              /\ (s.pc = "done" /\ NoLinks) =>
                    Range(s.out) = {Shown(c, p) : p \in {q \in files : MatchesAnyCase(c.ext, q)}}

\* the errors os.scandir raises for a directory it cannot open
ScanErrors == {"FileNotFoundError", "PermissionError", "NotADirectoryError"}

\* the directory whose scan raised: the oldest path put on the queue and
\* not opened (the root, for the loop without a queue)
FailingDir(c, s) ==
    IF Flat(c) THEN c.directory ELSE s.enqueued[Len(s.scanned) + 1]

\* what the walk yields from the directory at path p
YieldsOf(c, p) ==
    IF IsDirsCall(c) THEN DirChildren(Resolve(p).id, p)
    ELSE {q \in ChildPaths("file", Resolve(p).id, p) : Passes(c.ext, q)}

\* C6: a scan failure is raised lazily and never passed over.  Before the
\* first next() nothing was opened and nothing failed.  A walk ends
\* normally only if every directory it put on the queue was opened.  When
\* a scan fails, the failure comes on the next() that follows the last
\* delivered path, the failing directory is the one whose turn it was in
\* breadth-first order, it still cannot be opened, and everything the
\* directories before it had to yield was delivered.
C6_ScanFailureLazy ==
    \A w \in Walks :
        LET c == params[w]
            s == walk[w]
        IN  /\ s.pulls = 0 =>
                /\ s.pc \in {"created", "abandoned"}
                /\ s.err = "none" /\ s.scanned = <<>> /\ ~s.open
            /\ s.pc = "done" =>
                /\ s.err = "none"
                /\ s.scanned = IF Flat(c) THEN <<c.directory>> ELSE s.enqueued
            /\ (s.pc = "raised" /\ s.err \in ScanErrors) =>
                /\ s.pulls = Len(s.out) + 1
                /\ ~s.open
                /\ Flat(c) \/ Len(s.enqueued) > Len(s.scanned)
                /\ scandir(FailingDir(c, s)).err # "ok"
                /\ Static => scandir(FailingDir(c, s)).err = s.err
                /\ (Static /\ LowercaseExt(c.ext)) =>
                      \A i \in 1..Len(s.scanned) :
                          {Shown(c, p) : p \in YieldsOf(c, s.scanned[i])} \subseteq Range(s.out)
            /\ (Static /\ s.pc = "done") =>
                  \A i \in 1..Len(s.enqueued) : scandir(s.enqueued[i]).err = "ok"

\* a directory was removed while the walk was suspended after a yield; the
\* walk delivered what preceded it and then raised on reaching it
C6_Witness ==
    \E w \in Walks :
        /\ gone # {}
        /\ walk[w].pc = "raised"
        /\ walk[w].err = "FileNotFoundError"
        /\ Len(walk[w].out) >= 1
        /\ Len(walk[w].scanned) >= 1
        /\ walk[w].pulls = Len(walk[w].out) + 1

\* C7: a walk of an unchanged structure whose directories can all be
\* opened is a finite sequence that ends in exhaustion: once it takes no
\* further next(), the consumer not having dropped it, it has returned with
\* an empty queue.  This is stated for every structure the scan reports,
\* links to directories included.
C7_EndsExhausted ==
    \A w \in Walks :
        LET c == params[w]
            s == walk[w]
        IN  (/\ Static /\ fs.denied = {}
             /\ scandir(c.directory).err = "ok"
             /\ c.ext.kind # "set"
             /\ c.recursive
             /\ ~Live(s) /\ s.pc # "abandoned")
              => (s.pc = "done" /\ s.queue = <<>>)

\* C8: no directory handle outlives its use.  A handle is open only while
\* entries of its directory remain to be enumerated, never once the walk
\* has returned; after the consumer has dropped the walk, at whatever
\* point, no handle is open and no error was raised.
C8_NoHandleLeft ==
    \A w \in Walks :
        LET s == walk[w]
        IN  /\ s.open => (s.pc # "done" /\ s.idx <= Len(Listing(s.curid)))
            /\ s.pc = "abandoned" => (~s.open /\ s.err = "none")

\* q is an initial part of r
IsPrefix(q, r) == Len(q) <= Len(r) /\ q = SubSeq(r, 1, Len(q))

\* C9: walks share no state.  On an unchanged tree, however the next()
\* calls of two walks interleave, what each has delivered is an initial
\* part of what the same call delivers when drained alone, and a walk that
\* has ended has delivered all of it and ended the same way; two walks of
\* the same call that have both ended have delivered the same sequence.
C9_WalksIndependent ==
    /\ \A w \in Walks :
        LET c == params[w]
            s == walk[w]
            alone == get_in(c)
        IN  Static =>
              /\ IsPrefix(s.out, alone.out)
              /\ IsPrefix(s.scanned, alone.scanned)
              /\ (~Live(s) /\ s.pc # "abandoned") =>
                    /\ s.out = alone.out
                    /\ s.pc = alone.pc
                    /\ s.err = alone.err
    /\ (/\ Static /\ params[1] = params[2]
        /\ \A w \in Walks : ~Live(walk[w]) /\ walk[w].pc # "abandoned")
          => walk[1].out = walk[2].out

\* two recursive walks over overlapping subtrees are both in progress, each
\* suspended with directories waiting on its own queue
C9_Witness ==
    /\ fs = TreeDeep
    /\ params[1].directory # params[2].directory \/ params[1] = params[2]
    /\ params[1].recursive
    /\ walk[1].pc = "suspended" /\ walk[2].pc = "suspended"
    /\ walk[1].queue # <<>> /\ walk[2].queue # <<>>
    /\ Len(walk[1].out) > Len(walk[2].out)

\* C10: during one recursive walk of an unchanged tree no path is put on
\* the queue twice and no directory is opened twice; when the walk is
\* exhausted every path put on the queue was opened, and these are exactly
\* the root and the directories below it.
C10_EachDirOnce ==
    \A w \in Walks :
        LET c == params[w]
            s == walk[w]
        IN  (c.recursive /\ Static) =>
              /\ NoDup(s.enqueued)
              /\ NoDup(s.scanned)
              /\ s.pc = "done" =>
                    /\ s.scanned = s.enqueued
                    /\ s.queue = <<>>
                    /\ NoLinks => Range(s.scanned) =
                          {c.directory} \cup TreePaths("dir", RootId(c), c.directory)

\* a recursive walk of a tree with four directories on three levels is
\* exhausted after opening each of them
C10_Witness ==
    \E w \in Walks :
        /\ fs = TreeDeep
        /\ params[w].recursive
        /\ params[w].directory = <<R>>
        /\ walk[w].pc = "done"
        /\ Range(walk[w].scanned) = {<<R>>, <<R, D1>>, <<R, D_TXT>>, <<R, D1, D3>>}

(* ---------------------------- duration codec ---------------------------- *)

\* seconds_to_hms and hms_to_seconds are exercised by tests/test_dt.py and
\* described by the specification; their bodies are not part of the source
\* files, so the two functions are written here from the specification.
\*
\* A number of seconds is an integer count of units of 1/UnitsPerMs
\* milliseconds, so that values between two milliseconds exist.  A string
\* is a sequence of one-character strings.

\* resolution of a seconds value below the millisecond
UnitsPerMs == 2

UnitsPerSecond == 1000 * UnitsPerMs

\* seconds values given to seconds_to_hms are taken this close (in units)
\* to each of the anchor values
MaxOffset == 2

Abs(n) == IF n < 0 THEN -n ELSE n

DigitChars == <<"0", "1", "2", "3", "4", "5", "6", "7", "8", "9">>

IsDigit(ch) == \E i \in 1..10 : DigitChars[i] = ch

DigitVal(ch) == (CHOOSE i \in 1..10 : DigitChars[i] = ch) - 1

\* the decimal digits of a natural number
RECURSIVE Digits(_)
Digits(n) == IF n < 10 THEN <<DigitChars[n + 1]>> ELSE Digits(n \div 10) \o <<DigitChars[(n % 10) + 1]>>

\* "{n:0w}": at least w digits, zeros on the left
RECURSIVE ZeroPad(_, _)
ZeroPad(s, w) == IF Len(s) >= w THEN s ELSE ZeroPad(<<"0">> \o s, w)

\* a field clamped to a day
Hours_wrapped(total) == (total \div 3600) % 24

\* whole hours of a count of whole seconds: unbounded
Hours(total) == total \div 3600

\* a sign taken from the digits shown
Sign_ofshown(x, ms) ==
    IF x < 0 /\ (IF ms THEN Abs(x) \div UnitsPerMs ELSE Abs(x) \div UnitsPerSecond) # 0
    THEN <<"-">> ELSE <<>>

\* the sign is taken from the input before anything is cut off
Sign(x, ms) == IF x < 0 THEN <<"-">> ELSE <<>>

\* secondsToHms(seconds, includeMilliseconds)
seconds_to_hms(x, ms) ==
    LET a == Abs(x)
        whole == a \div UnitsPerSecond
        millis == (a \div UnitsPerMs) % 1000
        h == Hours(whole)
        m == (whole % 3600) \div 60
        s == whole % 60
    IN  Sign(x, ms) \o ZeroPad(Digits(h), 2) \o <<":">> \o ZeroPad(Digits(m), 2)
            \o <<":">> \o ZeroPad(Digits(s), 2)
            \o (IF ms THEN <<".">> \o ZeroPad(Digits(millis), 3) ELSE <<>>)

\* str.split(sep): the pieces of s between the separators
RECURSIVE Split(_, _)
Split(s, sep) ==
    LET ks == {k \in 1..Len(s) : s[k] = sep}
        k == CHOOSE k \in ks : \A j \in ks : k <= j
    IN  IF ks = {} THEN <<s>>
        ELSE <<SubSeq(s, 1, k - 1)>> \o Split(SubSeq(s, k + 1, Len(s)), sep)

AllDigits(s) == Len(s) > 0 /\ \A i \in 1..Len(s) : IsDigit(s[i])

RECURSIVE ToInt(_)
ToInt(s) == IF Len(s) = 0 THEN 0 ELSE 10 * ToInt(SubSeq(s, 1, Len(s) - 1)) + DigitVal(s[Len(s)])

\* fractional digits padded with zeros on the right to three places
RECURSIVE PadRight(_, _)
PadRight(s, w) == IF Len(s) >= w THEN s ELSE PadRight(s \o <<"0">>, w)

Invalid == [err |-> "ValueError", val |-> "none"]

\* parts read left to right as hours, minutes, seconds
Fields_lefttoright(parts) ==
    [h |-> parts[1],
     m |-> IF Len(parts) >= 2 THEN parts[2] ELSE <<"0">>,
     s |-> IF Len(parts) = 3 THEN parts[3] ELSE <<"0">>]

\* the colon-separated parts read right to left as seconds, minutes, hours
Fields(parts) ==
    [s |-> parts[Len(parts)],
     m |-> IF Len(parts) >= 2 THEN parts[Len(parts) - 1] ELSE <<"0">>,
     h |-> IF Len(parts) = 3 THEN parts[1] ELSE <<"0">>]

\* a parser that reads the digits and forgets the sign
Signed_positive(neg, n) == n

Signed(neg, n) == IF neg THEN -n ELSE n

\* a parser without the 0-59 check
RangeChecked_never(parts) == FALSE

\* the 0-59 check applies to minutes and seconds of a colon-separated
\* input; a bare number is a raw count of seconds
RangeChecked(parts) == Len(parts) >= 2

\* hmsToSeconds(text, includeMilliseconds): the value in units, or the
\* invalid-format error
hms_to_seconds(text, ms) ==
    LET neg == Len(text) > 0 /\ text[1] = "-"
        body == IF neg THEN SubSeq(text, 2, Len(text)) ELSE text
        parts == Split(body, ":")
        last == Split(parts[Len(parts)], ".")
        clean == [i \in 1..Len(parts) |-> IF i = Len(parts) THEN last[1] ELSE parts[i]]
        f == Fields(clean)
        millis == IF Len(last) = 2 THEN ToInt(PadRight(last[2], 3)) ELSE 0
    IN  IF Len(parts) > 3 THEN Invalid
        ELSE IF Len(last) > 2 \/ (Len(last) = 2 /\ ~ms) THEN Invalid
        ELSE IF \E i \in 1..Len(clean) : ~AllDigits(clean[i]) THEN Invalid
        ELSE IF Len(last) = 2 /\ ~AllDigits(last[2]) THEN Invalid
        ELSE IF RangeChecked(clean) /\ (ToInt(f.m) >= 60 \/ ToInt(f.s) >= 60) THEN Invalid
        ELSE [err |-> "none",
              val |-> Signed(neg, ((ToInt(f.h) * 3600 + ToInt(f.m) * 60 + ToInt(f.s)) * 1000
                                        + millis) * UnitsPerMs)]

\* seconds values around which inputs are taken: 0, 59.999 s, 123.456 s,
\* 3661.5 s, one day, 90321.789 s
Anchors == {0, 59999 * UnitsPerMs, 123456 * UnitsPerMs, 3661500 * UnitsPerMs,
            86400000 * UnitsPerMs, 90321789 * UnitsPerMs}

SecondsValues ==
    {a + d : a \in Anchors, d \in -MaxOffset..MaxOffset}
    \cup {-(a + d) : a \in Anchors, d \in -MaxOffset..MaxOffset}
    \cup {500 * UnitsPerMs, -500 * UnitsPerMs}

\* the strings given to hms_to_seconds
TimeStrings ==
    { <<>>,
      <<"-">>,
      <<"-", "0", ".", "5">>,
      <<"-", "0", "0", ":", "0", "2", ":", "0", "3">>,
      <<"-", "1", ":", "0", "2", ":", "0", "3">>,
      <<"-", "2", ":", "3">>,
      <<"-", "6", "1">>,
      <<"0", "0", ":", "0", "0", ":", "0", "0">>,
      <<"0", "0", ":", "0", "0", ":", "0", "0", ".", "0", "0", "1">>,
      <<"0", "0", ":", "0", "0", ":", "0", "0", ".", "0", "1">>,
      <<"0", "0", ":", "0", "0", ":", "0", "0", ".", "1">>,
      <<"0", "0", ":", "0", "2", ":", "0", "3">>,
      <<"0", "0", ":", "0", "2", ":", "0", "3", ".", "0", "4", "5">>,
      <<"0", "0", ":", "0", "2", ":", "0", "3", ".", "4">>,
      <<"0", "0", ":", "0", "2", ":", "0", "3", ".", "4", "5">>,
      <<"0", "0", ":", "0", "2", ":", "0", "3", ".", "4", "5", "6">>,
      <<"0", ":", "0">>,
      <<"0", ":", "0", ":", "0">>,
      <<"1", ".", "5", ":", "3", "0">>,
      <<"1", "2", "3">>,
      <<"1", "2", ":", "3", "4", ".", "5", "6", "7">>,
      <<"1", "2", ":", "3", "4", ":", "5", "6", ".", "7", "8", "9", "x">>,
      <<"1", "2", ":", "x", "4">>,
      <<"1", ":", "0", "2", ":", "0", "3">>,
      <<"1", ":", "0", "2", ":", "0", "3", ".">>,
      <<"1", ":", "0", "2", ":", "6", "0">>,
      <<"1", ":", "2", ":", "3", ":", "4">>,
      <<"1", ":", "2", ":", "3", ":", "4", ":", "5">>,
      <<"1", ":", "6", "0">>,
      <<"1", ":", "6", "0", ":", "0", "0">>,
      <<"1", ":", ":", "3">>,
      <<"2", "3", ":", "5", "9", ":", "5", "9", ".", "9", "9", "9">>,
      <<"2", "5", ":", "0", "5", ":", "2", "1">>,
      <<"2", ":", "3">>,
      <<"5", "9", ":", "5", "9">>,
      <<"6", "1">>,
      <<"a", "b">> }

\* the results tests/test_dt.py expects, in milliseconds
TestTable ==
    { [text |-> <<"0", "0", ":", "0", "2", ":", "0", "3">>, ms |-> FALSE, millis |-> 123000],
      [text |-> <<"1", ":", "0", "2", ":", "0", "3">>, ms |-> FALSE, millis |-> 3723000],
      [text |-> <<"2", ":", "3">>, ms |-> FALSE, millis |-> 123000],
      [text |-> <<"0", ":", "0", ":", "0">>, ms |-> FALSE, millis |-> 0],
      [text |-> <<"1", "2", "3">>, ms |-> FALSE, millis |-> 123000],
      [text |-> <<"-", "1", ":", "0", "2", ":", "0", "3">>, ms |-> FALSE, millis |-> -3723000],
      [text |-> <<"0", "0", ":", "0", "2", ":", "0", "3", ".", "4", "5", "6">>, ms |-> TRUE, millis |-> 123456],
      [text |-> <<"0", "0", ":", "0", "2", ":", "0", "3", ".", "4">>, ms |-> TRUE, millis |-> 123400],
      [text |-> <<"0", "0", ":", "0", "2", ":", "0", "3", ".", "4", "5">>, ms |-> TRUE, millis |-> 123450],
      [text |-> <<"0", "0", ":", "0", "2", ":", "0", "3", ".", "0", "4", "5">>, ms |-> TRUE, millis |-> 123045],
      [text |-> <<"2", "3", ":", "5", "9", ":", "5", "9", ".", "9", "9", "9">>, ms |-> TRUE, millis |-> 86399999],
      [text |-> <<"1", "2", ":", "3", "4", ".", "5", "6", "7">>, ms |-> TRUE, millis |-> 754567],
      [text |-> <<"0", "0", ":", "0", "0", ":", "0", "0">>, ms |-> FALSE, millis |-> 0],
      [text |-> <<"0", ":", "0">>, ms |-> FALSE, millis |-> 0],
      [text |-> <<"2", ":", "3">>, ms |-> TRUE, millis |-> 123000],
      [text |-> <<"-", "0", "0", ":", "0", "2", ":", "0", "3">>, ms |-> FALSE, millis |-> -123000],
      [text |-> <<"0", "0", ":", "0", "0", ":", "0", "0", ".", "1">>, ms |-> TRUE, millis |-> 100],
      [text |-> <<"0", "0", ":", "0", "0", ":", "0", "0", ".", "0", "1">>, ms |-> TRUE, millis |-> 10],
      [text |-> <<"0", "0", ":", "0", "0", ":", "0", "0", ".", "0", "0", "1">>, ms |-> TRUE, millis |-> 1] }

\* the inputs tests/test_dt.py expects to be rejected
TestRejected ==
    { [text |-> <<"1", ":", "6", "0">>, ms |-> FALSE],
      [text |-> <<"1", ":", "0", "2", ":", "6", "0">>, ms |-> FALSE],
      [text |-> <<"a", "b">>, ms |-> FALSE],
      [text |-> <<"1", ":", "2", ":", "3", ":", "4">>, ms |-> FALSE],
      [text |-> <<"1", "2", ":", "3", "4", ":", "5", "6", ".", "7", "8", "9", "x">>, ms |-> TRUE] }

\* One use of the codec: a seconds value x is formatted and the string is
\* parsed back, or a string is parsed.
CodecInit ==
    /\ codec \in [pc : {"start"}, x : SecondsValues, ms : BOOLEAN,
                  text : {<<>>}, res : {Invalid}]
    /\ WalkerUnused
    /\ nap = Unused /\ disk = Unused /\ job = Unused /\ dates = Unused

\* text = seconds_to_hms(x, ms)
Format ==
    /\ codec.pc = "start"
    /\ codec' = [codec EXCEPT !.pc = "formatted", !.text = seconds_to_hms(codec.x, codec.ms)]
    /\ UNCHANGED <<walkerVars, nap, disk, job, dates>>

\* hms_to_seconds(text, ms) of the string just produced
ParseBack ==
    /\ codec.pc = "formatted"
    /\ codec' = [codec EXCEPT !.pc = "roundtrip", !.res = hms_to_seconds(codec.text, codec.ms)]
    /\ UNCHANGED <<walkerVars, nap, disk, job, dates>>

\* hms_to_seconds(text, ms) of a string from the caller
ParseInput ==
    /\ codec.pc = "start"
    /\ \E s \in TimeStrings :
          codec' = [codec EXCEPT !.pc = "parsed", !.text = s, !.res = hms_to_seconds(s, codec.ms)]
    /\ UNCHANGED <<walkerVars, nap, disk, job, dates>>

CodecNext == Format \/ ParseBack \/ ParseInput

SpecCodec == CodecInit /\ [][CodecNext]_vars

\* two seconds values, in units, differ by at most 1e-9 s
Within1e9(a, b) == Abs(a - b) < UnitsPerMs /\ Abs(a - b) * 1000000 <= UnitsPerMs

\* x cut off toward zero at the millisecond
TruncToMs(x) ==
    IF x < 0 THEN -((Abs(x) \div UnitsPerMs) * UnitsPerMs) ELSE (x \div UnitsPerMs) * UnitsPerMs

\* C11 (as claimed): for every seconds value x, parsing the string that
\* seconds_to_hms(x, ms=True) produced gives a value within 1e-9 of x, and a
\* negative nonzero x never comes back as non-negative.
C11_RoundTripAll ==
    (codec.pc = "roundtrip" /\ codec.ms) =>
        /\ codec.res.err = "none"
        /\ Within1e9(codec.res.val, codec.x)
        /\ codec.x < 0 => codec.res.val < 0

\* C11 (amended): the round trip with milliseconds never fails and returns
\* x cut off toward zero at the millisecond: exactly x, sign included, when
\* x is a whole number of milliseconds; otherwise a value less than 1 ms
\* from x and never of the opposite sign, negative whenever x is negative
\* and at least 1 ms in magnitude.
C11_RoundTripMs ==
    (codec.pc = "roundtrip" /\ codec.ms) =>
        /\ codec.res.err = "none"
        /\ codec.res.val = TruncToMs(codec.x)
        /\ codec.x % UnitsPerMs = 0 => Within1e9(codec.res.val, codec.x)
        /\ Abs(codec.res.val - codec.x) < UnitsPerMs
        /\ codec.x < 0 => codec.res.val <= 0
        /\ codec.x > 0 => codec.res.val >= 0
        /\ (codec.x < 0 /\ Abs(codec.x) >= UnitsPerMs) => codec.res.val < 0

\* -123.456 s went through seconds_to_hms and back, as in
\* test_negative_time_roundtrip
C11_Witness ==
    /\ codec.pc = "roundtrip"
    /\ codec.ms
    /\ codec.x = -(123456 * UnitsPerMs)
    /\ codec.text = <<"-", "0", "0", ":", "0", "2", ":", "0", "3", ".", "4", "5", "6">>
    /\ codec.res = [err |-> "none", val |-> codec.x]

\* the string without its sign
Unsigned(text) == IF Len(text) > 0 /\ text[1] = "-" THEN Tail(text) ELSE text

\* C12: the string seconds_to_hms produces has three colon-separated
\* fields of digits, hours of at least 2 digits (more only when needed),
\* minutes and seconds of exactly 2, and with ms a fraction of exactly 3;
\* minutes and seconds are in 0..59 and the fraction in 0..999; the fields
\* add up to the magnitude of the input cut off at the precision shown;
\* hours are not wrapped at 24 (90321.789 gives 25:05:21).
C12_Decomposition ==
    codec.pc \in {"formatted", "roundtrip"} =>
        LET parts == Split(Unsigned(codec.text), ":")
            last == Split(parts[Len(parts)], ".")
            h == ToInt(parts[1])
            m == ToInt(parts[2])
            s == ToInt(last[1])
            f == ToInt(last[2])
        IN  /\ Len(parts) = 3
            /\ AllDigits(parts[1]) /\ AllDigits(parts[2]) /\ AllDigits(last[1])
            /\ Len(parts[1]) >= 2 /\ (Len(parts[1]) > 2 => parts[1][1] # "0")
            /\ Len(parts[2]) = 2 /\ Len(last[1]) = 2
            /\ m \in 0..59 /\ s \in 0..59
            /\ ~codec.ms =>
                  /\ Len(last) = 1
                  /\ h * 3600 + m * 60 + s = Abs(codec.x) \div UnitsPerSecond
            /\ codec.ms =>
                  /\ Len(last) = 2 /\ AllDigits(last[2]) /\ Len(last[2]) = 3
                  /\ f \in 0..999
                  /\ (h * 3600 + m * 60 + s) * 1000 + f = Abs(codec.x) \div UnitsPerMs
            /\ (codec.x = 90321789 * UnitsPerMs /\ ~codec.ms) =>
                  codec.text = <<"2", "5", ":", "0", "5", ":", "2", "1">>

\* 90321.789 s was formatted without milliseconds: more than 24 hours
C12_Witness ==
    /\ codec.pc = "formatted"
    /\ codec.x = 90321789 * UnitsPerMs
    /\ ~codec.ms
    /\ codec.text = <<"2", "5", ":", "0", "5", ":", "2", "1">>

\* C13: the string seconds_to_hms produces starts with "-" exactly when the
\* input is negative, whether or not the digits shown are all zero (-0.5
\* with ms gives -00:00:00.500); the string for 0 has no "-".
C13_SignPrefix ==
    codec.pc \in {"formatted", "roundtrip"} =>
        /\ (codec.text[1] = "-") <=> (codec.x < 0)
        /\ \A i \in 2..Len(codec.text) : codec.text[i] # "-"
        /\ codec.x = 0 => codec.text = (IF codec.ms THEN <<"0", "0", ":", "0", "0", ":", "0", "0", ".", "0", "0", "0">> ELSE <<"0", "0", ":", "0", "0", ":", "0", "0">>)
        /\ (codec.x = -(500 * UnitsPerMs) /\ codec.ms) => codec.text = <<"-", "0", "0", ":", "0", "0", ":", "0", "0", ".", "5", "0", "0">>

\* a negative value below one millisecond was formatted: every digit shown
\* is zero and the sign is there
C13_Witness ==
    /\ codec.pc = "formatted"
    /\ codec.x = -1
    /\ codec.ms
    /\ codec.text = <<"-", "0", "0", ":", "0", "0", ":", "0", "0", ".", "0", "0", "0">>

\* The grammar of hmsToSeconds read character by character: an optional
\* "-", one to three runs of digits separated by ":", and, with ms, an
\* optional "." and a run of digits at the end.
RECURSIVE Scan(_, _, _, _, _)
Scan(text, ms, i, st, colons) ==
    IF i > Len(text) THEN st \in {"int", "frac"}
    ELSE LET ch == text[i]
         IN  CASE IsDigit(ch) ->
                    Scan(text, ms, i + 1, IF st \in {"dot", "frac"} THEN "frac" ELSE "int", colons)
               [] ch = "-" -> st = "start" /\ Scan(text, ms, i + 1, "sign", colons)
               [] ch = ":" -> st = "int" /\ colons < 2 /\ Scan(text, ms, i + 1, "colon", colons + 1)
               [] ch = "." -> st = "int" /\ ms /\ Scan(text, ms, i + 1, "dot", colons)
               [] OTHER -> FALSE

MatchesGrammar(text, ms) == Scan(text, ms, 1, "start", 0)

Count(text, ch) == Cardinality({i \in 1..Len(text) : text[i] = ch})

\* what follows the first "." holds a character that is not a digit
FractionNotDigits(text) ==
    \E k \in 1..Len(text) :
        /\ text[k] = "."
        /\ \A j \in 1..(k - 1) : text[j] # "."
        /\ \E j \in (k + 1)..Len(text) : ~IsDigit(text[j])

\* the seconds or the minutes field, read as a number, is 60 or more
MinuteOrSecondOver59(text) ==
    LET parts == Split(Unsigned(text), ":")
        sec == Split(parts[Len(parts)], ".")[1]
        min == parts[Len(parts) - 1]
    IN  \/ AllDigits(sec) /\ ToInt(sec) >= 60
        \/ Len(parts) >= 2 /\ AllDigits(min) /\ ToInt(min) >= 60

\* C14 (as claimed): hms_to_seconds raises ValueError, and returns nothing,
\* for every input with more than 3 colon-separated parts, or a minute or
\* second component of 60 or more, or a fractional part with a non-digit,
\* or that does not match the grammar; what it accepts matches the grammar.
C14_RejectsAll ==
    codec.pc = "parsed" =>
        /\ (\/ Count(codec.text, ":") >= 3
            \/ MinuteOrSecondOver59(codec.text)
            \/ FractionNotDigits(codec.text)
            \/ ~MatchesGrammar(codec.text, codec.ms)) => codec.res = Invalid
        /\ codec.res.err = "none" => MatchesGrammar(codec.text, codec.ms)
        /\ codec.res.err # "none" => codec.res = Invalid

\* C14 (amended): as claimed, except that the 60-or-more rule applies only
\* to an input that has a colon; a bare number is not rejected for being 60
\* or more.
C14_Rejects ==
    codec.pc = "parsed" =>
        /\ (\/ Count(codec.text, ":") >= 3
            \/ Count(codec.text, ":") >= 1 /\ MinuteOrSecondOver59(codec.text)
            \/ FractionNotDigits(codec.text)
            \/ ~MatchesGrammar(codec.text, codec.ms)) => codec.res = Invalid
        /\ codec.res.err = "none" => MatchesGrammar(codec.text, codec.ms)
        /\ codec.res.err # "none" => codec.res = Invalid
        /\ \A row \in TestRejected :
              (row.text = codec.text /\ row.ms = codec.ms) => codec.res = Invalid

\* "1:02:60" was given and rejected
C14_Witness ==
    /\ codec.pc = "parsed"
    /\ codec.text = <<"1", ":", "0", "2", ":", "6", "0">>
    /\ codec.res = Invalid

\* C15: an accepted input has the value its fields give, read right to
\* left as seconds, minutes, hours: every input of tests/test_dt.py has the
\* value the test expects ("2:3" is 123, ".1" is 100 ms, ".01" is 10 ms);
\* a bare number is that many seconds even when it is 60 or more; a leading
\* "-" gives the negated value of the rest.
C15_Value ==
    codec.pc = "parsed" =>
        /\ \A row \in TestTable :
              (row.text = codec.text /\ row.ms = codec.ms) =>
                  codec.res = [err |-> "none", val |-> row.millis * UnitsPerMs]
        /\ AllDigits(codec.text) =>
              codec.res = [err |-> "none", val |-> ToInt(codec.text) * UnitsPerSecond]
        /\ (codec.res.err = "none" /\ codec.text[1] = "-") =>
              /\ hms_to_seconds(Tail(codec.text), codec.ms).err = "none"
              /\ codec.res.val = -(hms_to_seconds(Tail(codec.text), codec.ms).val)
        /\ (codec.res.err = "none" /\ codec.text[1] # "-") => codec.res.val >= 0

\* "2:3" was given and read as 2 minutes 3 seconds
C15_Witness ==
    /\ codec.pc = "parsed"
    /\ codec.text = <<"2", ":", "3">>
    /\ codec.res = [err |-> "none", val |-> 123 * UnitsPerSecond]

(***************************************************************************)
(* sleep (dt.py).  Durations are whole numbers of a time step; an optional *)
(* value is a sequence of length 0 (None) or 1.                            *)
(***************************************************************************)

\* longest duration given to sleep, in time steps
MaxSleep == 5

None == <<>>

Some(v) == <<v>>

SleepValues == 0..MaxSleep

Min(a, b) == IF a <= b THEN a ELSE b

Max(a, b) == IF a >= b THEN a ELSE b

\* random.uniform(a, b) is a + (b - a) * random(): any value between the
\* two arguments, whichever is the larger
uniform(a, b) == Min(a, b)..Max(a, b)

\* the test before the raise
OutOfOrder(lo, hi) == lo < hi

SleepInit ==
    /\ nap \in [pc : {"called"}, lo : SleepValues,
                hi : {None} \cup {Some(h) : h \in SleepValues},
                slept : {None}, ret : {None}, err : {"none"}]
    /\ WalkerUnused
    /\ codec = Unused /\ disk = Unused /\ job = Unused /\ dates = Unused

\* one call of sleep(lo, hi), to its return or its raise
sleep ==
    /\ nap.pc = "called"
    /\ IF nap.hi = None
         THEN nap' = [nap EXCEPT !.pc = "done", !.slept = Some(nap.lo), !.ret = Some(nap.lo)]
         ELSE IF OutOfOrder(nap.lo, nap.hi[1])
                THEN nap' = [nap EXCEPT !.pc = "done", !.err = "ValueError"]
                ELSE \E t \in uniform(nap.lo, nap.hi[1]) :
                        nap' = [nap EXCEPT !.pc = "done", !.slept = Some(t), !.ret = Some(t)]
    /\ UNCHANGED <<walkerVars, codec, disk, job, dates>>

SleepNext == sleep

SpecSleep == SleepInit /\ [][SleepNext]_vars

\* C16: with hi given, sleep raises ValueError exactly when lo is greater
\* than hi, and then has not slept; otherwise it sleeps for, and returns, a
\* duration t with lo <= t <= hi; with hi omitted it sleeps for and returns
\* exactly lo.
C16_SleepContract ==
    nap.pc = "done" =>
        IF nap.hi = None
          THEN nap.err = "none" /\ nap.slept = Some(nap.lo) /\ nap.ret = Some(nap.lo)
          ELSE /\ (nap.err = "ValueError") <=> (nap.lo > nap.hi[1])
               /\ nap.err # "none" => (nap.slept = None /\ nap.ret = None)
               /\ nap.err = "none" =>
                     /\ nap.ret # None /\ nap.slept = nap.ret
                     /\ nap.lo <= nap.ret[1] /\ nap.ret[1] <= nap.hi[1]

(***************************************************************************)
(* The files and directories that move_files, mkdirs and File work on.  A  *)
(* path is the sequence of its names below the current working directory   *)
(* (<<>>); disk maps each path to what is there.                           *)
(***************************************************************************)

DiskNames == {"a", "b", "out", "src", "sub"}

DiskPaths ==
    {<<n>> : n \in DiskNames} \cup {<<d, n>> : d \in {"out", "src"}, n \in {"a", "b", "sub"}}

Missing == [kind |-> "none", data |-> ""]

Directory == [kind |-> "dir", data |-> ""]

RegularFile(data) == [kind |-> "file", data |-> data]

\* os.path.dirname and os.path.basename
dirname(p) == SubSeq(p, 1, Len(p) - 1)

basename(p) == p[Len(p)]

\* f"{directory}{SEP}{name}"
join(directory, name) == Append(directory, name)

kindAt(d, p) == IF p = <<>> THEN "dir" ELSE d[p].kind

\* os.path.exists, os.path.isfile, os.path.isdir
exists(d, p) == kindAt(d, p) # "none"

isfile(d, p) == kindAt(d, p) = "file"

isdir(d, p) == kindAt(d, p) = "dir"

\* nothing lies below a path that is not a directory
WellFormed(d) == \A p \in DOMAIN d : exists(d, p) => isdir(d, dirname(p))

Done(d) == [disk |-> d, err |-> "none"]

Raised(d, e) == [disk |-> d, err |-> e]

\* os.mkdir
os_mkdir(d, p) ==
    CASE exists(d, p) -> Raised(d, "FileExistsError")
      [] ~exists(d, dirname(p)) -> Raised(d, "FileNotFoundError")
      [] ~isdir(d, dirname(p)) -> Raised(d, "NotADirectoryError")
      [] OTHER -> Done([d EXCEPT ![p] = Directory])

\* os.makedirs: the missing parents first, then the directory itself; with
\* exist_ok an existing directory is not an error
RECURSIVE makedirs(_, _, _)
makedirs(d, p, exist_ok) ==
    LET head == dirname(p)
        up == IF head # <<>> /\ ~exists(d, head) THEN makedirs(d, head, exist_ok) ELSE Done(d)
        made == os_mkdir(up.disk, p)
    IN  IF up.err # "none" THEN up
        ELSE IF made.err # "none" /\ (~exist_ok \/ ~isdir(up.disk, p)) THEN made
        ELSE Done(made.disk)

\* os.rename of a regular file: it replaces a file at the destination
rename(d, src, dst) ==
    CASE ~exists(d, src) -> Raised(d, "FileNotFoundError")
      [] ~exists(d, dirname(dst)) -> Raised(d, "FileNotFoundError")
      [] ~isdir(d, dirname(dst)) -> Raised(d, "NotADirectoryError")
      [] isdir(d, dst) -> Raised(d, "IsADirectoryError")
      [] src = dst -> Done(d)
      [] OTHER -> Done([d EXCEPT ![dst] = d[src], ![src] = Missing])

\* the loop of move_files from the i-th file on; it ends at the first raise
RECURSIVE MoveEach(_, _, _, _)
MoveEach(d, files, directory, i) ==
    IF i > Len(files) THEN Done(d)
    ELSE LET r == rename(d, files[i], join(directory, basename(files[i])))
         IN  IF r.err # "none" THEN r ELSE MoveEach(r.disk, files, directory, i + 1)

\* the test on the target directory
TargetTest(d, directory) == exists(d, directory)

move_files(d, files, directory, mkdir) ==
    IF TargetTest(d, directory)
      THEN IF mkdir
             THEN LET r == makedirs(d, directory, TRUE)
                  IN  IF r.err # "none" THEN r ELSE MoveEach(r.disk, files, directory, 1)
             ELSE Raised(d, "FileNotFoundError")
      ELSE MoveEach(d, files, directory, 1)

OUT == <<"out">>

\* the files a caller lists: a.txt here, b in src, and b here (which may be
\* missing)
Movable == {<<"a">>, <<"src", "b">>, <<"b">>}

\* longest list of files given to move_files
MaxFiles == 2

FileLists ==
    {fl \in UNION {[1..n -> Movable] : n \in 0..MaxFiles} :
        \A i, j \in 1..Len(fl) : fl[i] = fl[j] => i = j}

EmptyDisk == [p \in DiskPaths |-> Missing]

\* the disks move_files starts on: a and src/b are files, b may be; out is
\* missing, a file, or a directory that may already hold a file called a
MoveDisks ==
    {d \in {[[[[EmptyDisk EXCEPT ![<<"a">>] = RegularFile("x"), ![<<"src">>] = Directory,
                                 ![<<"src", "b">>] = RegularFile("y")]
                   EXCEPT ![<<"b">>] = b] EXCEPT ![OUT] = o] EXCEPT ![<<"out", "a">>] = oa] :
               b \in {Missing, RegularFile("w")},
               o \in {Missing, Directory, RegularFile("v")},
               oa \in {Missing, RegularFile("z")}} : WellFormed(d)}

MoveInit ==
    /\ disk \in MoveDisks
    /\ job \in [pc : {"called"}, files : FileLists, directory : {OUT}, mkdir : BOOLEAN,
                before : {disk}, err : {"none"}]
    /\ WalkerUnused
    /\ codec = Unused /\ nap = Unused /\ dates = Unused

\* one call of move_files, to its return or its raise
MoveFiles ==
    /\ job.pc = "called"
    /\ LET r == move_files(disk, job.files, job.directory, job.mkdir)
       IN  /\ disk' = r.disk
           /\ job' = [job EXCEPT !.pc = "done", !.err = r.err]
    /\ UNCHANGED <<walkerVars, codec, nap, dates>>

MoveNext == MoveFiles

SpecMove == MoveInit /\ [][MoveNext]_vars

\* the call is one the docstring speaks of: the target is a directory or
\* missing, every listed file is there, and no two have the same basename
MoveWellPosed ==
    /\ ~isfile(job.before, job.directory)
    /\ \A i \in 1..Len(job.files) : isfile(job.before, job.files[i])
    /\ \A i, j \in 1..Len(job.files) :
          basename(job.files[i]) = basename(job.files[j]) => i = j

\* C17: move_files raises FileNotFoundError exactly when the target
\* directory does not exist and mkdir is False, and then no file has moved;
\* when the target exists, or mkdir is True, the target is a directory
\* afterwards, every listed file is at directory/basename(file) with its
\* contents, and none is at its old path.
C17_MoveFiles ==
    (job.pc = "done" /\ MoveWellPosed) =>
        LET nodir == ~exists(job.before, job.directory) /\ ~job.mkdir
        IN  /\ (job.err = "FileNotFoundError") <=> nodir
            /\ nodir => disk = job.before
            /\ ~nodir =>
                  /\ job.err = "none"
                  /\ isdir(disk, job.directory)
                  /\ \A i \in 1..Len(job.files) :
                        /\ disk[join(job.directory, basename(job.files[i]))]
                              = job.before[job.files[i]]
                        /\ ~exists(disk, job.files[i])

\* mkdir of fs.py: os.makedirs with exist_ok=True by default
mkdir(d, p) == makedirs(d, p, TRUE)

\* the test before a name's directory is made: the bare name, which the
\* system resolves against the current working directory
NameTest(d, dest, name) == exists(d, <<name>>)

\* the loop of mkdirs from the i-th name on; it ends at the first raise
RECURSIVE MakeEach(_, _, _, _)
MakeEach(d, dest, names, i) ==
    IF i > Len(names) THEN Done(d)
    ELSE IF NameTest(d, dest, names[i]) THEN MakeEach(d, dest, names, i + 1)
    ELSE LET r == mkdir(d, join(dest, names[i]))
         IN  IF r.err # "none" THEN r ELSE MakeEach(r.disk, dest, names, i + 1)

mkdirs(d, dest, names) ==
    LET r == IF ~exists(d, dest) THEN mkdir(d, dest) ELSE Done(d)
    IN  IF r.err # "none" THEN r ELSE MakeEach(r.disk, dest, names, 1)

\* longest list of names given to mkdirs
MaxNames == 2

NameLists ==
    {nl \in UNION {[1..n -> {"a", "sub"}] : n \in 0..MaxNames} :
        \A i, j \in 1..Len(nl) : nl[i] = nl[j] => i = j}

\* the disks mkdirs starts on: out is missing, a file or a directory that
\* may hold a and sub already; the working directory may hold entries
\* called a and sub
MkdirsDisks ==
    {d \in {[EmptyDisk EXCEPT ![OUT] = o, ![<<"out", "a">>] = oa, ![<<"out", "sub">>] = os,
                              ![<<"a">>] = a, ![<<"sub">>] = s] :
               o \in {Missing, Directory, RegularFile("v")},
               oa \in {Missing, Directory},
               os \in {Missing, Directory},
               a \in {Missing, Directory, RegularFile("x")},
               s \in {Missing, Directory}} : WellFormed(d)}

MkdirsInit ==
    /\ disk \in MkdirsDisks
    /\ job \in [pc : {"called"}, dest : {OUT}, names : NameLists, before : {disk},
                err : {"none"}]
    /\ WalkerUnused
    /\ codec = Unused /\ nap = Unused /\ dates = Unused

\* one call of mkdirs, to its return or its raise
Mkdirs ==
    /\ job.pc = "called"
    /\ LET r == mkdirs(disk, job.dest, job.names)
       IN  /\ disk' = r.disk
           /\ job' = [job EXCEPT !.pc = "done", !.err = r.err]
    /\ UNCHANGED <<walkerVars, codec, nap, dates>>

MkdirsNext == Mkdirs

SpecMkdirs == MkdirsInit /\ [][MkdirsNext]_vars

\* the path is dest or lies below it
Within(dest, p) == Len(p) >= Len(dest) /\ SubSeq(p, 1, Len(dest)) = dest

\* C18: after mkdirs(dest, names) has returned (dest was a directory or
\* missing), dest is a directory and so is dest/name for every name in
\* names, whatever else was on the disk before
\* (an entry called name in the working directory, or dest/name already
\* there); nothing outside dest has changed.
C18_Mkdirs ==
    (job.pc = "done" /\ job.err = "none" /\ ~isfile(job.before, job.dest)) =>
        /\ isdir(disk, job.dest)
        /\ \A i \in 1..Len(job.names) : isdir(disk, join(job.dest, job.names[i]))
        /\ \A p \in DiskPaths : ~Within(job.dest, p) => disk[p] = job.before[p]

(***************************************************************************)
(* File.create, File.remove and File.clear (fs.py), on the file object of  *)
(* one path.  A call gives the disk it leaves, the exception it raised and *)
(* the value it returned ("self", or "None").                              *)
(***************************************************************************)

Returned(d, v) == [disk |-> d, err |-> "none", ret |-> v]

Failed(d, e) == [disk |-> d, err |-> e, ret |-> "nothing"]

\* File.exists
File_exists(d, path) == isfile(d, path)

\* open(path, "a").close(): makes an empty file where there is none
open_append(d, path) ==
    CASE isdir(d, path) -> Raised(d, "IsADirectoryError")
      [] ~exists(d, dirname(path)) -> Raised(d, "FileNotFoundError")
      [] isfile(d, path) -> Done(d)
      [] OTHER -> Done([d EXCEPT ![path] = RegularFile("")])

\* open(path, "w").close(): leaves an empty file
open_write(d, path) ==
    CASE isdir(d, path) -> Raised(d, "IsADirectoryError")
      [] ~exists(d, dirname(path)) -> Raised(d, "FileNotFoundError")
      [] OTHER -> Done([d EXCEPT ![path] = RegularFile("")])

\* os.remove
os_remove(d, path) ==
    CASE ~exists(d, path) -> Raised(d, "FileNotFoundError")
      [] isdir(d, path) -> Raised(d, "IsADirectoryError")
      [] OTHER -> Done([d EXCEPT ![path] = Missing])

create(d, path) ==
    IF File_exists(d, path) THEN Returned(d, "self")
    ELSE LET r == open_append(d, path)
         IN  IF r.err # "none" THEN Failed(d, r.err) ELSE Returned(r.disk, "self")

remove(d, path) ==
    IF ~File_exists(d, path) THEN Returned(d, "self")
    ELSE LET r == os_remove(d, path)
         IN  IF r.err # "none" THEN Failed(d, r.err) ELSE Returned(r.disk, "self")

clear(d, path) ==
    IF ~File_exists(d, path) THEN Returned(d, "None")
    ELSE LET r == open_write(d, path)
         IN  IF r.err # "none" THEN Failed(d, r.err) ELSE Returned(r.disk, "self")

\* most calls made on one File object
MaxOps == 4

\* the path of the File object
FILE == <<"a">>

\* what may be at the path when the File object is made
FileDisks ==
    {[EmptyDisk EXCEPT ![FILE] = e] :
        e \in {Missing, RegularFile(""), RegularFile("x"), Directory}}

FileInit ==
    /\ disk \in FileDisks
    /\ job = [path |-> FILE, ops |-> <<>>, before |-> disk, err |-> "none", ret |-> "nothing"]
    /\ WalkerUnused
    /\ codec = Unused /\ nap = Unused /\ dates = Unused

\* the state after one more call, r being what the call gave
Called(op, r) ==
    /\ Len(job.ops) < MaxOps
    /\ disk' = r.disk
    /\ job' = [job EXCEPT !.ops = Append(@, op), !.before = disk, !.err = r.err, !.ret = r.ret]
    /\ UNCHANGED <<walkerVars, codec, nap, dates>>

Create == Called("create", create(disk, job.path))

Remove == Called("remove", remove(disk, job.path))

Clear == Called("clear", clear(disk, job.path))

FileNext == Create \/ Remove \/ Clear

SpecFile == FileInit /\ [][FileNext]_vars

\* the call that was made last
LastOp == IF job.ops = <<>> THEN "nothing" ELSE job.ops[Len(job.ops)]

\* C20: whatever calls came before, on a path that is not a directory:
\* create makes an empty file only where none is and leaves an existing
\* file as it is; remove deletes the file and does nothing when there is
\* none; clear empties an existing file and does not create a missing one;
\* after create the file exists and after remove it does not; no other
\* path changes; and each call returns the File object itself.
C20_FileOps ==
    (LastOp # "nothing" /\ ~isdir(job.before, job.path)) =>
        LET was == job.before[job.path]
            now == disk[job.path]
        IN  /\ job.err = "none"
            /\ \A p \in DiskPaths : p # job.path => disk[p] = job.before[p]
            /\ LastOp = "create" =>
                  /\ now.kind = "file"
                  /\ now = (IF was.kind = "file" THEN was ELSE RegularFile(""))
            /\ LastOp = "remove" => now = Missing
            /\ LastOp = "clear" =>
                  now = (IF was.kind = "file" THEN RegularFile("") ELSE Missing)
            /\ job.ret = "self"

(***************************************************************************)
(* date_range (dt.py).  A date is its year, month and day; date            *)
(* arithmetic goes through the day number of the proleptic Gregorian       *)
(* calendar, as datetime does (1 is 0001-01-01).                           *)
(***************************************************************************)

Date(y, m, d) == [year |-> y, month |-> m, day |-> d]

IsLeap(y) == y % 4 = 0 /\ (y % 100 # 0 \/ y % 400 = 0)

DaysInMonth(y, m) ==
    IF m = 2 THEN (IF IsLeap(y) THEN 29 ELSE 28)
    ELSE IF m \in {4, 6, 9, 11} THEN 30 ELSE 31

\* days before January 1st of year y
DaysBeforeYear(y) == (y - 1) * 365 + (y - 1) \div 4 - (y - 1) \div 100 + (y - 1) \div 400

\* days of the year before the first of month m
DaysBeforeMonth(y, m) ==
    <<0, 31, 59, 90, 120, 151, 181, 212, 243, 273, 304, 334>>[m]
        + (IF m > 2 /\ IsLeap(y) THEN 1 ELSE 0)

\* date.toordinal
toordinal(dt) == DaysBeforeYear(dt.year) + DaysBeforeMonth(dt.year, dt.month) + dt.day

\* the year that day number n falls in
YearOf(n) ==
    CHOOSE y \in Max(1, n \div 366)..(n \div 365 + 1) :
        DaysBeforeYear(y) < n /\ n <= DaysBeforeYear(y + 1)

\* date.fromordinal
fromordinal(n) ==
    CHOOSE dt \in {Date(y, m, k - DaysBeforeYear(y) - DaysBeforeMonth(y, m)) :
                      k \in {n}, y \in {YearOf(n)}, m \in 1..12} :
        dt.day \in 1..DaysInMonth(dt.year, dt.month)

\* (end - start).days
days_between(start, end) == toordinal(end) - toordinal(start)

\* start + timedelta(n)
plus_days(start, n) == fromordinal(toordinal(start) + n)

\* a range that takes in the end date
RangeLen_inclusive(start, end) == Max(0, days_between(start, end) + 1)

\* len(range(int((end - start).days)))
RangeLen(start, end) == Max(0, days_between(start, end))

\* start and end are at most this many days apart
MaxSpan == 5

\* dates around the end of February in a common year, a leap year and a
\* century year that is not a leap year, around the end of a year, and
\* those of the docstring
DateWindow ==
    {Date(1900, 2, d) : d \in 27..28} \cup {Date(1900, 3, d) : d \in 1..2}
        \cup {Date(2023, 2, d) : d \in 27..28} \cup {Date(2023, 3, d) : d \in 1..2}
        \cup {Date(2024, 2, d) : d \in 27..29} \cup {Date(2024, 3, d) : d \in 1..2}
        \cup {Date(2023, 12, d) : d \in 30..31} \cup {Date(2024, 1, d) : d \in 1..2}
        \cup {Date(2022, 11, d) : d \in 19..22}

DatesInit ==
    /\ dates = [pc |-> "idle", start |-> Date(1, 1, 1), end |-> Date(1, 1, 1), n |-> 0,
                yielded |-> <<>>]
    /\ WalkerUnused
    /\ codec = Unused /\ nap = Unused /\ disk = Unused /\ job = Unused

\* the call date_range(start, end): it makes the generator and runs none
\* of its body
date_range ==
    /\ dates.pc = "idle"
    /\ \E start, end \in DateWindow :
          /\ Abs(days_between(start, end)) <= MaxSpan
          /\ dates' = [dates EXCEPT !.pc = "created", !.start = start, !.end = end]
    /\ UNCHANGED <<walkerVars, codec, nap, disk, job>>

\* next() on the generator: the next date, or the end of the loop
NextDate ==
    /\ dates.pc \in {"created", "running"}
    /\ IF dates.n < RangeLen(dates.start, dates.end)
         THEN dates' = [dates EXCEPT !.pc = "running", !.n = @ + 1,
                                     !.yielded = Append(@, plus_days(dates.start, dates.n))]
         ELSE dates' = [dates EXCEPT !.pc = "done"]
    /\ UNCHANGED <<walkerVars, codec, nap, disk, job>>

DatesNext == date_range \/ NextDate

\* the for loop that consumes the generator keeps asking for the next date
SpecDates == DatesInit /\ [][DatesNext]_vars /\ WF_vars(NextDate)

\* a is an earlier day than b
Earlier(a, b) ==
    \/ a.year < b.year
    \/ a.year = b.year /\ a.month < b.month
    \/ a.year = b.year /\ a.month = b.month /\ a.day < b.day

\* the calendar day after dt
Tomorrow(dt) ==
    IF dt.day < DaysInMonth(dt.year, dt.month) THEN Date(dt.year, dt.month, dt.day + 1)
    ELSE IF dt.month < 12 THEN Date(dt.year, dt.month + 1, 1)
    ELSE Date(dt.year + 1, 1, 1)

\* the days from a up to, not including, b
RECURSIVE DaysFrom(_, _)
DaysFrom(a, b) == IF Earlier(a, b) THEN <<a>> \o DaysFrom(Tomorrow(a), b) ELSE <<>>

\* what date_range has yielded is always the beginning of the days from
\* start up to, not including, end, and all of them once it has ended
DatesSoFar ==
    /\ IsPrefix(dates.yielded, DaysFrom(dates.start, dates.end))
    /\ dates.pc = "done" => dates.yielded = DaysFrom(dates.start, dates.end)
    /\ (dates.pc = "done" /\ ~Earlier(dates.start, dates.end)) => dates.yielded = <<>>

\* C19: date_range(start, end) yields exactly the dates d with
\* start <= d < end, in ascending order, one per calendar day without gap
\* or repeat; nothing when end <= start; and the loop over it always ends.
C19_DateRange == []DatesSoFar /\ (dates.pc = "created" ~> dates.pc = "done")

\* the range over the end of February 2024 has ended with the 29th in it
C19_Witness ==
    /\ dates.pc = "done"
    /\ dates.start = Date(2024, 2, 28)
    /\ dates.end = Date(2024, 3, 2)
    /\ dates.yielded = <<Date(2024, 2, 28), Date(2024, 2, 29), Date(2024, 3, 1)>>

(***************************************************************************)
(* yield_files_in without a filter: which entries of a scanned directory   *)
(* are handed out                                                          *)
(***************************************************************************)

\* the i-th directory the walk opened has been read to its end
ScannedThrough(s, i) == i < Len(s.scanned) \/ s.pc = "done"

\* C21 (as claimed): in a files walk without filter, every entry of every
\* scanned directory that is not a directory (a regular file, or anything
\* else the scan reports) has been yielded once that directory is read.
C21_NonDirsYielded ==
    \A w \in Walks :
        LET c == params[w]
            s == walk[w]
        IN  (IsFilesCall(c) /\ c.ext.kind = "none" /\ Static) =>
              \A i \in 1..Len(s.scanned) :
                  ScannedThrough(s, i) =>
                      LET ls == Listing(Resolve(s.scanned[i]).id)
                      IN  \A k \in 1..Len(ls) :
                              is_dir(ls[k], Append(s.scanned[i], ls[k].name)) = "no" =>
                                  Shown(c, Append(s.scanned[i], ls[k].name)) \in Range(s.out)

\* C21 (amended): in a files walk without filter, every regular file of
\* every scanned directory has been yielded once that directory is read;
\* an entry that is neither a directory nor a regular file (a special
\* file, a dangling link) is passed over without an error and is never
\* yielded: every yielded path names a regular file.
C21_RegularFilesYielded ==
    \A w \in Walks :
        LET c == params[w]
            s == walk[w]
        IN  (IsFilesCall(c) /\ c.ext.kind = "none") =>
              /\ \A j \in 1..Len(s.out) : KindFrom(0, Unshown(c, s.out[j]), 1) = "file"
              /\ Static =>
                  \A i \in 1..Len(s.scanned) :
                      ScannedThrough(s, i) =>
                          LET ls == Listing(Resolve(s.scanned[i]).id)
                          IN  \A k \in 1..Len(ls) :
                                  LET p == Append(s.scanned[i], ls[k].name)
                                  IN  /\ ls[k].kind = "file" => Shown(c, p) \in Range(s.out)
                                      /\ (is_dir(ls[k], p) = "no" /\ is_file(ls[k], p) = "no") =>
                                            Shown(c, p) \notin Range(s.out)

\* the walk of r/{d1/.., f.TXT, d.txt/.., fifo} has ended: the five files
\* were yielded and fifo was not
C21_Witness ==
    \E w \in Walks :
        /\ fs = TreeDeep /\ Static
        /\ params[w].fn = "yield_files_in"
        /\ params[w].ext.kind = "none"
        /\ params[w].directory = <<R>>
        /\ params[w].recursive
        /\ walk[w].pc = "done"
        /\ Len(walk[w].out) = 5
        /\ Shown(params[w], <<R, F_TXT_UP>>) \in Range(walk[w].out)
        /\ Shown(params[w], <<R, FIFO>>) \notin Range(walk[w].out)

(***************************************************************************)
(* json_append and json_dump (fs.py).  The file content is the sequence of *)
(* its bytes.  A text-mode file writes "\n" as the line separator of the   *)
(* platform and reads "\r\n" and "\r" as "\n".  The values appended are    *)
(* small dicts: {} is <<>> and {"k": d} is <<d>>.                          *)
(***************************************************************************)

LF == "\n"

CR == "\r"

QUOTE == "\""

\* os.linesep: POSIX, Windows
LineSeps == {<<LF>>, <<CR, LF>>}

\* what a text-mode write puts in the file
RECURSIVE Encode(_, _)
Encode(text, linesep) ==
    IF text = <<>> THEN <<>>
    ELSE (IF Head(text) = LF THEN linesep ELSE <<Head(text)>>) \o Encode(Tail(text), linesep)

\* what a text-mode read gives back
RECURSIVE Decode(_)
Decode(bytes) ==
    IF bytes = <<>> THEN <<>>
    ELSE IF Head(bytes) = CR
      THEN <<LF>> \o Decode(IF Len(bytes) >= 2 /\ bytes[2] = LF THEN Tail(Tail(bytes)) ELSE Tail(bytes))
    ELSE <<Head(bytes)>> \o Decode(Tail(bytes))

\* the indentation of nesting level n, indent spaces for each level
RECURSIVE Spaces(_)
Spaces(n) == IF n = 0 THEN <<>> ELSE <<" ">> \o Spaces(n - 1)

\* "k": d
Member(v) == <<QUOTE, "k", QUOTE, ":", " ", DigitChars[v[1] + 1]>>

\* json.dumps(v) without indent
dumps_compact(v) == IF v = <<>> THEN <<"{", "}">> ELSE <<"{">> \o Member(v) \o <<"}">>

\* json.dumps(v, indent=indent), v standing at nesting level
dumps(v, indent, level) ==
    IF v = <<>> THEN <<"{", "}">>
    ELSE <<"{", LF>> \o Spaces(indent * (level + 1)) \o Member(v)
            \o <<LF>> \o Spaces(indent * level) \o <<"}">>

\* json.dumps([v], indent=indent)
dumps_list(v, indent) == <<"[", LF>> \o Spaces(indent) \o dumps(v, indent, 1) \o <<LF, "]">>

\* the default of the indent parameter
DefaultIndent == 4

\* json_dump: the file is opened for writing and holds the dumped data
json_dump(d, path, text, linesep) ==
    LET r == open_write(d, path)
    IN  IF r.err # "none" THEN r
        ELSE Done([d EXCEPT ![path] = RegularFile(Encode(text, linesep))])

json_append(d, path, v, indent, linesep) ==
    IF ~File_exists(d, path) \/ Len(d[path].data) = 0
      THEN json_dump(d, path, dumps_list(v, indent), linesep)
      ELSE LET bytes == d[path].data
               first_char == Decode(bytes)[1]
               added == <<",", LF>> \o dumps(v, indent, 0) \o <<"]", LF>>
           IN  CASE first_char = "[" ->
                      IF Len(bytes) < 2 THEN Raised(d, "ValueError")
                      ELSE Done([d EXCEPT ![path] =
                              RegularFile(SubSeq(bytes, 1, Len(bytes) - 2) \o Encode(added, linesep))])
                 [] first_char = "{" ->
                      Done([d EXCEPT ![path] =
                              RegularFile(Encode(<<"[", LF>> \o Decode(bytes) \o added, linesep))])
                 [] OTHER -> Raised(d, "ValueError")

\* most json_append calls on one file
MaxAppends == 4

\* the values appended
JsonValues == {<<>>, <<1>>, <<2>>}

\* a file that holds a single object, written compactly, with a closing
\* newline, or indented
ObjectFiles(linesep) ==
    UNION {{dumps_compact(v), dumps_compact(v) \o linesep,
            Encode(dumps(v, DefaultIndent, 0), linesep)} : v \in {<<>>, <<7>>}}

\* files that hold no JSON object or array at their first character
JunkFiles == {<<"h", "i">>, <<" ", "{", "}">>}

JsonInit ==
    /\ \E linesep \in LineSeps :
          \E e \in {Missing, RegularFile(<<>>)}
                     \cup {RegularFile(b) : b \in ObjectFiles(linesep) \cup JunkFiles} :
              /\ disk = [EmptyDisk EXCEPT ![FILE] = e]
              /\ job = [path |-> FILE, linesep |-> linesep, initial |-> e, calls |-> <<>>,
                        before |-> disk, err |-> "none"]
    /\ WalkerUnused
    /\ codec = Unused /\ nap = Unused /\ dates = Unused

\* one call of json_append with the default indent
JsonAppend ==
    /\ Len(job.calls) < MaxAppends
    /\ \E v \in JsonValues :
          LET r == json_append(disk, job.path, v, DefaultIndent, job.linesep)
          IN  /\ disk' = r.disk
              /\ job' = [job EXCEPT !.calls = Append(@, v), !.before = disk, !.err = r.err]
    /\ UNCHANGED <<walkerVars, codec, nap, dates>>

JsonNext == JsonAppend

SpecJson == JsonInit /\ [][JsonNext]_vars

\* JSON white space does not count between the tokens
NoSpace(bytes) == SelectSeq(bytes, LAMBDA ch : ch \notin {" ", LF, CR})

\* the value a text begins with, and how many characters it takes; no
\* characters when it begins with no value
ValueAt(s) ==
    IF Len(s) >= 2 /\ SubSeq(s, 1, 2) = <<"{", "}">> THEN [len |-> 2, val |-> <<>>]
    ELSE IF /\ Len(s) >= 7
            /\ SubSeq(s, 1, 5) = <<"{", QUOTE, "k", QUOTE, ":">>
            /\ IsDigit(s[6]) /\ s[7] = "}"
      THEN [len |-> 7, val |-> <<DigitVal(s[6])>>]
    ELSE [len |-> 0, val |-> <<>>]

\* the values of a comma-separated list, or not ok
RECURSIVE ParseItems(_)
ParseItems(s) ==
    LET v == ValueAt(s)
        rest == SubSeq(s, v.len + 1, Len(s))
        more == ParseItems(Tail(rest))
    IN  IF v.len = 0 THEN [ok |-> FALSE, items |-> <<>>]
        ELSE IF rest = <<>> THEN [ok |-> TRUE, items |-> <<v.val>>]
        ELSE IF Head(rest) # "," THEN [ok |-> FALSE, items |-> <<>>]
        ELSE [ok |-> more.ok, items |-> <<v.val>> \o more.items]

\* json.loads of the file content when it is a well-formed array
ParseArray(bytes) ==
    LET s == NoSpace(bytes)
    IN  IF Len(s) < 2 \/ s[1] # "[" \/ s[Len(s)] # "]" THEN [ok |-> FALSE, items |-> <<>>]
        ELSE IF Len(s) = 2 THEN [ok |-> TRUE, items |-> <<>>]
        ELSE ParseItems(SubSeq(s, 2, Len(s) - 1))

\* the file began with a single JSON object at its first character
BeganAsObject ==
    /\ job.initial.kind = "file" /\ job.initial.data # <<>>
    /\ job.initial.data[1] = "{"
    /\ ValueAt(NoSpace(job.initial.data)).len = Len(NoSpace(job.initial.data))

\* the file began with something that is neither "[" nor "{"
BeganAsJunk ==
    /\ job.initial.kind = "file" /\ job.initial.data # <<>>
    /\ job.initial.data[1] \notin {"[", "{"}

BeganEmpty == job.initial.kind = "none" \/ job.initial.data = <<>>

\* C22: from a missing or empty file, after n >= 1 calls of json_append
\* the file holds a well-formed JSON array of exactly the n appended
\* values in call order; a file that began as a single object holds that
\* object followed by the appended values; a non-empty file that begins
\* with neither "[" nor "{" makes json_append raise ValueError and keeps
\* its content.
C22_JsonAppend ==
    Len(job.calls) >= 1 =>
        LET parsed == ParseArray(disk[job.path].data)
        IN  /\ BeganEmpty =>
                  /\ job.err = "none"
                  /\ parsed = [ok |-> TRUE, items |-> job.calls]
            /\ BeganAsObject =>
                  /\ job.err = "none"
                  /\ parsed = [ok |-> TRUE,
                               items |-> <<ValueAt(NoSpace(job.initial.data)).val>> \o job.calls]
            /\ BeganAsJunk =>
                  /\ job.err = "ValueError"
                  /\ disk[job.path] = job.initial

(***************************************************************************)
(* Timer (dt.py).  Time is counted in ticks of half a second; time.time()  *)
(* gives any tick of the clock, which the system may also set back.        *)
(***************************************************************************)

\* latest tick time.time() gives
MaxClock == 3

\* most entries Timer.stops grows to
MaxStops == 3

Clock == 0..MaxClock

Labels == {None, Some("a")}

\* round(x) of a number of seconds given in ticks: to the nearest whole
\* second, a half going to the even one; the result again in ticks
Round(ticks) ==
    LET q == ticks \div 2
    IN  2 * (IF ticks % 2 = 0 THEN q ELSE IF q % 2 = 0 THEN q ELSE q + 1)

TimerStop(total, since_last, at, label) ==
    [total |-> total, since_last |-> since_last, at |-> at, label |-> label]

\* a reset that keeps the stops made so far
reset_keepstops(tm, t) ==
    [tm EXCEPT !.start = t, !.stops = Append(@, TimerStop(0, 0, t, Some("start")))]

\* Timer.reset, time.time() giving t
reset(tm, t) == [tm EXCEPT !.start = t, !.stops = <<TimerStop(0, 0, t, Some("start"))>>]

\* Timer.stop, time.time() giving t: the timer after it and what it returns
stop(tm, label, t) ==
    LET elapsed_total == t - tm.start
        since_last == t - tm.stops[Len(tm.stops)].at
        timer_stop == IF tm.ms THEN TimerStop(elapsed_total, since_last, t, label)
                      ELSE TimerStop(Round(elapsed_total), Round(since_last), t, label)
    IN  [timer |-> [tm EXCEPT !.stops = Append(@, timer_stop)], ret |-> Some(timer_stop)]

\* Timer(ms=ms): __init__ calls reset
NewTimer(ms, t) == reset([ms |-> ms, start |-> 0, stops |-> <<>>], t)

\* job holds the timer, the stop calls made since the last reset (label
\* and clock), the call made last, what it returned, and the stops before
TimerInit ==
    /\ \E ms \in BOOLEAN, t \in Clock :
          job = [timer |-> NewTimer(ms, t), calls |-> <<>>, op |-> "init", ret |-> None,
                 prev |-> <<>>, resets |-> FALSE]
    /\ WalkerUnused
    /\ codec = Unused /\ nap = Unused /\ disk = Unused /\ dates = Unused

Stop ==
    /\ Len(job.timer.stops) <= MaxStops
    /\ \E label \in Labels, t \in Clock :
          LET r == stop(job.timer, label, t)
          IN  job' = [job EXCEPT !.timer = r.timer, !.ret = r.ret, !.op = "stop",
                                  !.prev = job.timer.stops,
                                  !.calls = Append(@, [label |-> label, at |-> t])]
    /\ UNCHANGED <<walkerVars, codec, nap, disk, dates>>

Reset ==
    /\ \E t \in Clock :
          job' = [job EXCEPT !.timer = reset(job.timer, t), !.ret = None, !.op = "reset",
                              !.prev = job.timer.stops, !.calls = <<>>, !.resets = TRUE]
    /\ UNCHANGED <<walkerVars, codec, nap, disk, dates>>

TimerNext == Stop \/ Reset

SpecTimer == TimerInit /\ [][TimerNext]_vars

\* C23: Timer.stops is never empty: it is the "start" entry (label
\* "start", zero total and since_last, at equal to Timer.start) followed
\* by one entry for each stop call since the last reset or the
\* construction, in call order; stop appends one entry, returns that entry
\* and changes none before it; reset leaves exactly the "start" entry.
C23_TimerStops ==
    LET stops == job.timer.stops
    IN  /\ stops # <<>>
        /\ stops[1] = TimerStop(0, 0, job.timer.start, Some("start"))
        /\ Len(stops) = 1 + Len(job.calls)
        /\ \A i \in 1..Len(job.calls) :
              /\ stops[i + 1].label = job.calls[i].label
              /\ stops[i + 1].at = job.calls[i].at
        /\ job.op = "stop" =>
              /\ job.ret = Some(stops[Len(stops)])
              /\ stops = Append(job.prev, job.ret[1])
        /\ job.op = "reset" => (Len(stops) = 1 /\ job.ret = None)

\* after a reset, two stops were made: the start entry and theirs, in order
C23_Witness ==
    /\ job.resets /\ job.op = "stop"
    /\ Len(job.prev) = 2
    /\ Len(job.timer.stops) = 3
    /\ job.timer.stops[2].label = Some("a")
    /\ job.timer.stops[3].label = None

====
